---------------------------- MODULE Spec2Model ----------------------------
(***************************************************************************)
(* Model of src/loader_plugin.py: the ESP8266 firmware-image decoder, its  *)
(* segment-table walker, the memory mapper and the two-region driver.      *)
(*                                                                         *)
(* The script is one sequential program.  Its position is pc/region; each  *)
(* action is one step of it: the header read of the constructor, one       *)
(* iteration of the walker loop, the return of the constructor, one        *)
(* iteration of the mapping loop, the entry-point registration.  A raised  *)
(* exception is never caught by the script, so the step that raises also   *)
(* unwinds main.                                                           *)
(*                                                                         *)
(* The host (Ghidra) is the environment.  Its byte source is an immutable  *)
(* file of binary.len bytes: a read of a range that is not wholly inside   *)
(* the file fails.  Its memory map refuses a mapped view that overlaps an  *)
(* existing one or whose source range is not inside the file.  Every call  *)
(* the script makes into the host is logged in calls[region].              *)
(*                                                                         *)
(* Text is a sequence of one-character strings, so that concatenation and  *)
(* decimal formatting are computed and names can be compared.  Addresses   *)
(* are represented by their offset in the default address space.  The      *)
(* inputs keep every 32-bit value below 2^31.                              *)
(***************************************************************************)
EXTENDS Integers, Sequences, FiniteSets, TLC

VARIABLES
    binary,                  \* the flat dump: [len, bytes]; bytes not listed are 0
    pc,                      \* "header" | "walk" | "map" | "done" | "raised"
    region,                  \* which map_firmware call of main is running (1, 2)
    self,                    \* the ESP8266FirmwareMetaData under construction
    segment_index,           \* loop variable of _initialize_segments_list
    segments_start_address,  \* the walker's cursor
    firmware_meta_data,      \* map_firmware's local, per call; Null until built
    map_index,               \* position of create_mapped_segments in the list
    views,                   \* the host's memory map: the blocks created
    entry_points,            \* the host's entry points, in registration order
    calls,                   \* per region, the host calls made, in order
    error,                   \* Null, or the exception that left main
    first                    \* outcome of the previous run of the script, or Null

vars == <<binary, pc, region, self, segment_index, segments_start_address,
          firmware_meta_data, map_index, views, entry_points, calls, error,
          first>>

-----------------------------------------------------------------------------
(* Bounds and program constants *)

MaxSegs == 2

BOOTLOADER_START_ADDRESS == 0

FIRMWARE_START_ADDRESS == 4096

FW_HEADER_LEN == 8

SEG_HEADER_LEN == 8

SEGMENTS_DEFAULT_NAME == <<"S", "e", "g", "m", "e", "n", "t">>

BOOTLOADER_SEGMENTS_NAME == <<"b", "o", "o", "t", "l", "o", "a", "d", "e", "r">>

Null == [constructed |-> FALSE]

Regions == {1, 2}

\* main: the two map_firmware calls, in order
MainCalls ==
    << [offset_in_binary |-> BOOTLOADER_START_ADDRESS,
        segment_name |-> BOOTLOADER_SEGMENTS_NAME],
       [offset_in_binary |-> FIRMWARE_START_ADDRESS,
        segment_name |-> SEGMENTS_DEFAULT_NAME] >>

-----------------------------------------------------------------------------
(* Pure helpers *)

toAddr(offset) == offset

ByteAt(bin, o) == IF o \in DOMAIN bin.bytes THEN bin.bytes[o] ELSE 0

\* getBytes(address, length): fails unless the whole range is in the file
getBytes(bin, address, length) ==
    IF address + length <= bin.len
    THEN [ok |-> TRUE, bytes |-> [i \in 1..length |-> ByteAt(bin, address + i - 1)]]
    ELSE [ok |-> FALSE, bytes |-> <<>>]

\* struct "<I" at position p (1-based) of b
UnpackU32LE(b, p) ==
    b[p] + 256 * b[p + 1] + 65536 * b[p + 2] + 16777216 * b[p + 3]

\* struct.unpack("<4BI", b)
unpack_4BI(b) == <<b[1], b[2], b[3], b[4], UnpackU32LE(b, 5)>>

\* struct.unpack("<II", b)
unpack_II(b) == <<UnpackU32LE(b, 1), UnpackU32LE(b, 5)>>

Digit(d) == <<"0", "1", "2", "3", "4", "5", "6", "7", "8", "9">>[d + 1]

RECURSIVE str(_)
str(n) == IF n < 10 THEN <<Digit(n)>> ELSE str(n \div 10) \o <<Digit(n % 10)>>

SegmentName_NoIndex(segments_name, index) == segments_name

\* segments_name + str(segment_index)
SegmentName(segments_name, index) == segments_name \o str(index)

\* MemorySegmentInfo.__init__
MemorySegmentInfo(name, start_address, size, data_offset_in_binary) ==
    [name |-> name,
     start_address |-> toAddr(start_address),
     size |-> size,
     data_offset_in_binary |-> toAddr(data_offset_in_binary)]

from_program_ZeroOnFailedRead(bin, name, segment_start_address) ==
    LET r == getBytes(bin, toAddr(segment_start_address), SEG_HEADER_LEN)
        u == IF r.ok THEN unpack_II(r.bytes) ELSE <<0, 0>>
    IN  [ok |-> TRUE, read |-> r,
         segment |-> MemorySegmentInfo(name, u[1], u[2], segment_start_address)]

\* MemorySegmentInfo.from_program: a failed read raises
from_program(bin, name, segment_start_address) ==
    LET r == getBytes(bin, toAddr(segment_start_address), SEG_HEADER_LEN)
    IN  IF r.ok
        THEN LET u == unpack_II(r.bytes)
             IN  [ok |-> TRUE, read |-> r,
                  segment |-> MemorySegmentInfo(name, u[1], u[2], segment_start_address)]
        ELSE [ok |-> FALSE, read |-> r, segment |-> Null]

AdvanceCursor_NoHeader(cursor, new_segment) == cursor + new_segment.size

\* segments_start_address += new_segment.size + MemorySegmentInfo.HEADER_LEN
AdvanceCursor(cursor, new_segment) == cursor + new_segment.size + SEG_HEADER_LEN

RangeExhausted_OffByOne(index, number_of_segments) == index >= number_of_segments - 1

\* for segment_index in range(self.number_of_segments): the range is exhausted
RangeExhausted(index, number_of_segments) == index >= number_of_segments

\* where the first segment header is read: fw_start_address + self.HEADER_LEN
FirstSegmentAddress(fw_start_address) == fw_start_address + FW_HEADER_LEN

AllMapped_SkipLast(index, segment_list) == index > Len(segment_list) - 1

\* the loop of create_mapped_segments has gone through segment_list
AllMapped(index, segment_list) == index > Len(segment_list)

HeaderOf_ZeroOnFailedRead(r) ==
    IF r.ok THEN [ok |-> TRUE, fields |-> unpack_4BI(r.bytes)]
    ELSE [ok |-> TRUE, fields |-> <<0, 0, 0, 0, 0>>]

HeaderOf_CheckMagic(r) ==
    IF r.ok /\ r.bytes[1] = 233 THEN [ok |-> TRUE, fields |-> unpack_4BI(r.bytes)]
    ELSE [ok |-> FALSE, fields |-> <<>>]

\* the header fields, from what getBytes gave: a failed read raises
HeaderOf(r) ==
    IF r.ok THEN [ok |-> TRUE, fields |-> unpack_4BI(r.bytes)]
    ELSE [ok |-> FALSE, fields |-> <<>>]

Unwind_NextRegion(k, stage) ==
    IF k < 2 THEN [pc |-> "header", region |-> k + 1]
    ELSE [pc |-> "raised", region |-> k]

\* an exception raised while region k is processed, in the constructor
\* (stage "decode") or in create_mapped_segments (stage "map"): neither
\* map_firmware nor main catches it
Unwind(k, stage) == [pc |-> "raised", region |-> k]

Overlaps(a1, n1, a2, n2) == n1 > 0 /\ n2 > 0 /\ a1 < a2 + n2 /\ a2 < a1 + n1

\* the host accepts mem.createByteMappedBlock(name, start, offset, size)
ViewAccepted(bin, vs, start, offset, size) ==
    /\ offset + size <= bin.len
    /\ \A i \in 1..Len(vs) : ~Overlaps(start, size, vs[i].start, vs[i].size)

Call(op, name, addr, offset, size) ==
    [op |-> op, name |-> name, addr |-> addr, offset |-> offset, size |-> size]

GetBytesCall(address, length) == Call("getBytes", <<>>, address, 0, length)

\* the calls of one iteration of create_mapped_segments that succeeds
MapCalls(s) ==
    << Call("createByteMappedBlock", s.name, s.start_address,
            s.data_offset_in_binary, s.size),
       Call("setWrite", s.name, 0, 0, 0),
       Call("setExecute", s.name, 0, 0, 0) >>

-----------------------------------------------------------------------------
(* Inputs: dumps holding a bootloader image at 0 and an application image  *)
(* at 0x1000, cut at the lengths of FileLengths.                           *)

Le32Bytes(n) ==
    <<n % 256, (n \div 256) % 256, (n \div 65536) % 256, (n \div 16777216) % 256>>

\* <<mapped address, size>> of a segment record; <<0, 0>> is an all-zero record
SegChoices == {<<1073745920, 8>>, <<1073754112, 4>>, <<1073745920, 4>>, <<0, 0>>}

Tables == UNION {[1..n -> SegChoices] : n \in 0..MaxSegs}

AppSegChoices == {<<1073762304, 4>>, <<1073754112, 4>>}

AppTables == UNION {[1..n -> AppSegChoices] : n \in 0..MaxSegs}

\* one table long enough for two-digit segment indexes
LongTable == [i \in 1..11 |-> <<1073807360 + 16 * i, 4>>]

MagicChoices == {0, 233, 234}

FileLengths == {4, 12, 28, 36, 4100, 4108, 4120, 4160}

RECURSIVE TableBytes(_)
TableBytes(t) ==
    IF t = <<>> THEN <<>>
    ELSE Le32Bytes(Head(t)[1]) \o Le32Bytes(Head(t)[2])
         \o [i \in 1..Head(t)[2] |-> 0] \o TableBytes(Tail(t))

ImageBytes(magic, entry, t) ==
    <<magic, Len(t), 0, 0>> \o Le32Bytes(entry) \o TableBytes(t)

Place(at, b) == [o \in at..(at + Len(b) - 1) |-> b[o - at + 1]]

\* a file of len bytes: the two images, cut at len
Dump(len, boot, app) ==
    LET all == Place(BOOTLOADER_START_ADDRESS, boot) @@ Place(FIRMWARE_START_ADDRESS, app)
    IN  [len |-> len, bytes |-> [o \in {x \in DOMAIN all : x < len} |-> all[o]]]

Inputs ==
    {Dump(len, ImageBytes(m, 305419896, bt), ImageBytes(234, 1073742057, at)) :
        len \in FileLengths, m \in {0, 233}, bt \in Tables \cup {LongTable},
        at \in AppTables}

-----------------------------------------------------------------------------
(* The program *)

Start(bin) ==
    /\ binary = bin
    /\ pc = "header"
    /\ region = 1
    /\ self = Null
    /\ segment_index = 0
    /\ segments_start_address = 0
    /\ firmware_meta_data = [k \in Regions |-> Null]
    /\ map_index = 1
    /\ views = <<>>
    /\ entry_points = <<>>
    /\ calls = [k \in Regions |-> <<>>]
    /\ error = Null

Init == \E bin \in Inputs : Start(bin) /\ first = Null

Raise(k, stage) ==
    /\ pc' = Unwind(k, stage).pc
    /\ region' = Unwind(k, stage).region
    /\ error' = [constructed |-> TRUE, region |-> k, stage |-> stage]

\* ESP8266FirmwareMetaData.__init__, up to the call of _initialize_segments_list
ReadHeader ==
    /\ pc = "header"
    /\ LET fw_start_address == MainCalls[region].offset_in_binary
           r == getBytes(binary, toAddr(fw_start_address), FW_HEADER_LEN)
           h == HeaderOf(r)
       IN  /\ calls' = [calls EXCEPT ![region] =
                            Append(@, GetBytesCall(fw_start_address, FW_HEADER_LEN))]
           /\ \/ /\ ~h.ok
                 /\ Raise(region, "decode")
                 /\ self' = Null
                 /\ UNCHANGED <<segment_index, segments_start_address>>
              \/ /\ h.ok
                 /\ LET u == h.fields
                    IN  self' = [constructed |-> TRUE,
                                 magic_char |-> u[1],
                                 number_of_segments |-> u[2],
                                 spi_flash_interface |-> u[3],
                                 memory_info |-> u[4],
                                 entry_point |-> toAddr(u[5]),
                                 segments |-> <<>>]
                 /\ segments_start_address' = FirstSegmentAddress(fw_start_address)
                 /\ segment_index' = 0
                 /\ pc' = "walk"
                 /\ UNCHANGED <<region, error>>
    /\ UNCHANGED <<binary, firmware_meta_data, map_index, views, entry_points, first>>

\* one iteration of the loop of _initialize_segments_list
WalkSegment ==
    /\ pc = "walk"
    /\ ~RangeExhausted(segment_index, self.number_of_segments)
    /\ LET made == from_program(binary,
                                SegmentName(MainCalls[region].segment_name, segment_index),
                                segments_start_address)
           new_segment == made.segment
       IN  /\ calls' = [calls EXCEPT ![region] =
                            Append(@, GetBytesCall(segments_start_address, SEG_HEADER_LEN))]
           /\ \/ /\ ~made.ok
                 /\ Raise(region, "decode")
                 /\ UNCHANGED <<self, segment_index, segments_start_address>>
              \/ /\ made.ok
                 /\ self' = [self EXCEPT !.segments = Append(@, new_segment)]
                 /\ segments_start_address' =
                        AdvanceCursor(segments_start_address, new_segment)
                 /\ segment_index' = segment_index + 1
                 /\ UNCHANGED <<pc, region, error>>
    /\ UNCHANGED <<binary, firmware_meta_data, map_index, views, entry_points, first>>

\* the loop ends; the constructor returns into map_firmware
WalkReturn ==
    /\ pc = "walk"
    /\ RangeExhausted(segment_index, self.number_of_segments)
    /\ firmware_meta_data' = [firmware_meta_data EXCEPT ![region] = self]
    /\ map_index' = 1
    /\ pc' = "map"
    /\ UNCHANGED <<binary, region, self, segment_index, segments_start_address,
                   views, entry_points, calls, error, first>>

\* one iteration of the loop of create_mapped_segments
MapSegment ==
    /\ pc = "map"
    /\ ~AllMapped(map_index, firmware_meta_data[region].segments)
    /\ LET s == firmware_meta_data[region].segments[map_index]
       IN  \/ /\ ~ViewAccepted(binary, views, s.start_address,
                               s.data_offset_in_binary, s.size)
              /\ calls' = [calls EXCEPT ![region] = Append(@, MapCalls(s)[1])]
              /\ Raise(region, "map")
              /\ UNCHANGED <<views, map_index>>
           \/ /\ ViewAccepted(binary, views, s.start_address,
                              s.data_offset_in_binary, s.size)
              /\ calls' = [calls EXCEPT ![region] = @ \o MapCalls(s)]
              /\ views' = Append(views, [name |-> s.name,
                                         start |-> s.start_address,
                                         offset |-> s.data_offset_in_binary,
                                         size |-> s.size,
                                         write |-> TRUE,
                                         execute |-> TRUE])
              /\ map_index' = map_index + 1
              /\ UNCHANGED <<pc, region, error>>
    /\ UNCHANGED <<binary, self, segment_index, segments_start_address,
                   firmware_meta_data, entry_points, first>>

\* create_mapped_segments returns; addEntryPoint; map_firmware returns into main
AddEntryPoint ==
    /\ pc = "map"
    /\ AllMapped(map_index, firmware_meta_data[region].segments)
    /\ entry_points' = Append(entry_points, firmware_meta_data[region].entry_point)
    /\ calls' = [calls EXCEPT ![region] =
                     Append(@, Call("addEntryPoint", <<>>,
                                    firmware_meta_data[region].entry_point, 0, 0))]
    /\ \/ /\ region < Len(MainCalls)
          /\ region' = region + 1
          /\ pc' = "header"
          /\ self' = Null
       \/ /\ region = Len(MainCalls)
          /\ pc' = "done"
          /\ UNCHANGED <<region, self>>
    /\ UNCHANGED <<binary, segment_index, segments_start_address,
                   firmware_meta_data, map_index, views, error, first>>

Next == ReadHeader \/ WalkSegment \/ WalkReturn \/ MapSegment \/ AddEntryPoint

Spec == Init /\ [][Next]_vars

-----------------------------------------------------------------------------
(* Two runs: once the script has ended, it is run again, on a fresh        *)
(* program, over a dump that differs from the first one in the magic byte  *)
(* of one region's header and in nothing else.                             *)

Terminated == pc \in {"done", "raised"}

\* what a run leaves behind, the decoded magic byte aside
Outcome ==
    [pc |-> pc,
     error |-> error,
     decoded |-> [k \in Regions |->
                    IF firmware_meta_data[k].constructed
                    THEN [firmware_meta_data[k] EXCEPT !.magic_char = 0]
                    ELSE Null],
     calls |-> calls,
     views |-> views,
     entry_points |-> entry_points]

Rerun ==
    /\ Terminated
    /\ first = Null
    /\ \E k \in Regions, m \in MagicChoices :
          LET at == MainCalls[k].offset_in_binary
          IN  /\ at < binary.len
              /\ m # ByteAt(binary, at)
              /\ first' = [constructed |-> TRUE, outcome |-> Outcome,
                           varied |-> k, magic |-> ByteAt(binary, at)]
              /\ binary' = [binary EXCEPT !.bytes = (at :> m) @@ @]
    /\ pc' = "header"
    /\ region' = 1
    /\ self' = Null
    /\ segment_index' = 0
    /\ segments_start_address' = 0
    /\ firmware_meta_data' = [k \in Regions |-> Null]
    /\ map_index' = 1
    /\ views' = <<>>
    /\ entry_points' = <<>>
    /\ calls' = [k \in Regions |-> <<>>]
    /\ error' = Null

NextPair == Next \/ Rerun

SpecPair == Init /\ [][NextPair]_vars

-----------------------------------------------------------------------------
(* What the claims speak of *)

\* the getBytes calls of region k, in order: the image header, then the segment headers
ReadsOf(k) == SelectSeq(calls[k], LAMBDA c : c.op = "getBytes")

SegmentReads(k) == IF ReadsOf(k) = <<>> THEN <<>> ELSE Tail(ReadsOf(k))

\* the calls of region k into the memory map and the entry-point facility
MapLog(k) == SelectSeq(calls[k], LAMBDA c : c.op # "getBytes")

Built(k) == firmware_meta_data[k].constructed

\* the segment list of region k: of the built object, or of the one being built
Segs(k) ==
    IF Built(k) THEN firmware_meta_data[k].segments
    ELSE IF region = k /\ self.constructed THEN self.segments
    ELSE <<>>

RaisedIn(k, stage) ==
    error.constructed /\ error.region = k /\ error.stage = stage

\* the little-endian 32-bit value held by the file at offset o
FileU32(o) ==
    ByteAt(binary, o) + 256 * ByteAt(binary, o + 1)
    + 65536 * ByteAt(binary, o + 2) + 16777216 * ByteAt(binary, o + 3)

StartOf(k) == IF k = 1 THEN 0 ELSE 4096

BaseOf(k) == IF k = 1 THEN <<"b", "o", "o", "t", "l", "o", "a", "d", "e", "r">>
             ELSE <<"S", "e", "g", "m", "e", "n", "t">>

DigitValue(c) == CHOOSE d \in 0..9 : Digit(d) = c

IsDigit(c) == \E d \in 0..9 : Digit(d) = c

RECURSIVE DecimalValue(_)
DecimalValue(t) ==
    IF Len(t) = 1 THEN DigitValue(t[1])
    ELSE 10 * DecimalValue(SubSeq(t, 1, Len(t) - 1)) + DigitValue(t[Len(t)])

\* t is the decimal numeral of n, as str writes it
IsNumeralOf(t, n) ==
    /\ Len(t) >= 1
    /\ \A i \in 1..Len(t) : IsDigit(t[i])
    /\ (Len(t) > 1 => t[1] # "0")
    /\ DecimalValue(t) = n

-----------------------------------------------------------------------------
(* C1: every segment descriptor's data_offset_in_binary is the offset at   *)
(* which its own 8-byte header was read plus 8: it points at the data, not *)
(* at the header.  The code stores the header's offset.                    *)
C1_SourceOffsetIsPastHeader ==
    \A k \in Regions : \A i \in 1..Len(Segs(k)) :
        Segs(k)[i].data_offset_in_binary = SegmentReads(k)[i].addr + 8

\* the dump of the end-to-end scenario
ScenarioBytes ==
    << 0, 2, 0, 0, 120, 86, 52, 18,
       0, 16, 0, 64, 8, 0, 0, 0,
       0, 0, 0, 0, 0, 0, 0, 0,
       0, 48, 0, 64, 4, 0, 0, 0,
       0, 0, 0, 0 >>

ScenarioDump == [len |-> Len(ScenarioBytes), bytes |-> Place(0, ScenarioBytes)]

(* C2: the end-to-end scenario of the specification decodes to entry point *)
(* 0x12345678 and two segments, mapped at 0x40001000 and 0x40003000, of    *)
(* sizes 8 and 4, with source offsets 16 and 32.                           *)
C2_EndToEndScenario ==
    (binary = ScenarioDump /\ Built(1)) =>
        /\ firmware_meta_data[1].entry_point = 305419896
        /\ [i \in 1..Len(Segs(1)) |->
               <<Segs(1)[i].start_address, Segs(1)[i].size,
                 Segs(1)[i].data_offset_in_binary>>]
           = << <<1073745920, 8, 16>>, <<1073754112, 4, 32>> >>

(* C3: cumulative-offset law.  In every segment list, each descriptor's    *)
(* source offset is its predecessor's plus the predecessor's size plus 8;  *)
(* the first segment header is read at the region's start plus 8 and each  *)
(* next one at the previous read's offset plus 8 plus the previous size.   *)
C3_CumulativeOffsetLaw ==
    \A k \in Regions :
        /\ \A i \in 1..(Len(Segs(k)) - 1) :
               Segs(k)[i + 1].data_offset_in_binary
                   = Segs(k)[i].data_offset_in_binary + Segs(k)[i].size + 8
        /\ (SegmentReads(k) # <<>> => SegmentReads(k)[1].addr = StartOf(k) + 8)
        /\ \A i \in 1..(Len(SegmentReads(k)) - 1) :
               SegmentReads(k)[i + 1].addr
                   = SegmentReads(k)[i].addr + 8 + Segs(k)[i].size

C3_Witness ==
    /\ Built(1) /\ Built(2)
    /\ Len(Segs(1)) >= 2 /\ Len(Segs(2)) >= 2
    /\ Segs(1)[1].size # Segs(1)[2].size

(* C4: once the walker has returned, it has made exactly segment_count     *)
(* reads of 8 bytes for segment headers, segment_count being byte 1 of the *)
(* image header, and the list holds exactly segment_count descriptors in   *)
(* file order, the i-th with the address and size of the i-th header read  *)
(* and with index i-1 in its name; with segment_count 0 there is no read.  *)
C4_ExactlySegmentCountReads ==
    \A k \in Regions : Built(k) =>
        LET n == ByteAt(binary, StartOf(k) + 1)
        IN  /\ firmware_meta_data[k].number_of_segments = n
            /\ Len(SegmentReads(k)) = n
            /\ Len(Segs(k)) = n
            /\ \A i \in 1..n :
                   /\ SegmentReads(k)[i].size = 8
                   /\ Segs(k)[i].start_address = FileU32(SegmentReads(k)[i].addr)
                   /\ Segs(k)[i].size = FileU32(SegmentReads(k)[i].addr + 4)
                   /\ Segs(k)[i].name = BaseOf(k) \o str(i - 1)

C4_Witness ==
    /\ pc = "done"
    /\ Len(Segs(1)) = 0 /\ SegmentReads(1) = <<>>
    /\ Len(Segs(2)) >= 2

(* C5, as stated: when the decoding of the bootloader region has failed    *)
(* and the driver has ended, the application region has been attempted.    *)
C5_AppAttemptedAfterBootFailure ==
    (Terminated /\ RaisedIn(1, "decode")) => calls[2] # <<>>

(* C5, amended: an error in the bootloader region ends the driver: the     *)
(* application region is then never attempted.  The application region is  *)
(* attempted only after the bootloader's entry point has been registered.  *)
C5_BootFailureEndsDriver ==
    /\ (error.constructed /\ error.region = 1) =>
           /\ pc = "raised" /\ region = 1
           /\ calls[2] = <<>>
           /\ ~Built(2)
    /\ (region = 2 \/ calls[2] # <<>>) =>
           /\ ~(error.constructed /\ error.region = 1)
           /\ calls[1] # <<>>
           /\ calls[1][Len(calls[1])].op = "addEntryPoint"

C5_Witness ==
    /\ pc = "raised" /\ RaisedIn(1, "decode")
    /\ self.constructed /\ Len(self.segments) >= 1

(* C6: when fewer than 8 bytes are available at a region's start, the      *)
(* region's decoding fails with an error: no header object exists, zero-   *)
(* valued or other, and the region has no segment descriptor, no view and  *)
(* no entry point.                                                         *)
C6_TruncatedHeaderFails ==
    \A k \in Regions :
        (calls[k] # <<>> /\ binary.len < StartOf(k) + 8) =>
            /\ pc = "raised" /\ RaisedIn(k, "decode")
            /\ region = k /\ self = Null
            /\ ~Built(k) /\ Segs(k) = <<>>
            /\ calls[k] = <<GetBytesCall(StartOf(k), 8)>>

C6_Witness ==
    /\ calls[2] # <<>>
    /\ binary.len > 4096 /\ binary.len < 4104
    /\ Len(Segs(1)) >= 1

\* a getBytes call of region k asked for bytes past the end of the file
FailedRead(k) ==
    \E i \in 1..Len(calls[k]) :
        calls[k][i].op = "getBytes" /\ calls[k][i].addr + calls[k][i].size > binary.len

(* C7: a segment-header read that runs past the end of the file, at any    *)
(* index, is fatal to the region: the error leaves main, the object is     *)
(* never handed to the mapper, and the region gets no view and no entry    *)
(* point; in every region all reads come before the first mapping call.    *)
C7_DecodeErrorIsFatal ==
    \A k \in Regions :
        /\ FailedRead(k) =>
               /\ pc = "raised" /\ region = k /\ RaisedIn(k, "decode")
               /\ ~Built(k)
               /\ MapLog(k) = <<>>
               /\ \A i \in 1..Len(views) :
                      Len(views[i].name) < Len(BaseOf(k))
                      \/ SubSeq(views[i].name, 1, Len(BaseOf(k))) # BaseOf(k)
               /\ Len(entry_points) = k - 1
        /\ \A i, j \in 1..Len(calls[k]) :
               (calls[k][i].op # "getBytes" /\ i < j) => calls[k][j].op # "getBytes"

C7_Witness ==
    /\ FailedRead(2)
    /\ self.constructed /\ Len(self.segments) >= 1
    /\ Len(views) >= 1

\* the calls the mapper is expected to make for the first n segments
ExpectedCreate(s) ==
    [op |-> "createByteMappedBlock", name |-> s.name, addr |-> s.start_address,
     offset |-> s.data_offset_in_binary, size |-> s.size]

RECURSIVE ExpectedMapLog(_, _)
ExpectedMapLog(segs, n) ==
    IF n = 0 THEN <<>>
    ELSE ExpectedMapLog(segs, n - 1)
         \o << ExpectedCreate(segs[n]),
               [op |-> "setWrite", name |-> segs[n].name, addr |-> 0, offset |-> 0, size |-> 0],
               [op |-> "setExecute", name |-> segs[n].name, addr |-> 0, offset |-> 0, size |-> 0] >>

NMapped(k) == Len(SelectSeq(calls[k], LAMBDA c : c.op = "setExecute"))

ExpectedViews(k) ==
    [i \in 1..NMapped(k) |->
        [name |-> Segs(k)[i].name, start |-> Segs(k)[i].start_address,
         offset |-> Segs(k)[i].data_offset_in_binary, size |-> Segs(k)[i].size,
         write |-> TRUE, execute |-> TRUE]]

Registered(k) == \E i \in 1..Len(calls[k]) : calls[k][i].op = "addEntryPoint"

(* C8: the mapper creates one view per segment, in list order, each with   *)
(* the name, mapped address, source offset and size of its descriptor, and *)
(* makes it writable and executable; the entry point is registered once,   *)
(* after the views of all segments; if a create-view call fails, the       *)
(* region's entry point is not registered.                                 *)
C8_MapInOrderThenEntryPoint ==
    /\ \A k \in Regions :
           LET segs == IF Built(k) THEN firmware_meta_data[k].segments ELSE <<>>
               n == NMapped(k)
               log == MapLog(k)
               rest == SubSeq(log, 3 * n + 1, Len(log))
           IN  /\ n <= Len(segs)
               /\ SubSeq(log, 1, 3 * n) = ExpectedMapLog(segs, n)
               /\ Len(rest) <= 1
               /\ rest # <<>> =>
                      \/ /\ rest[1].op = "addEntryPoint"
                         /\ rest[1].addr = firmware_meta_data[k].entry_point
                         /\ n = Len(segs)
                      \/ /\ n < Len(segs)
                         /\ rest[1] = ExpectedCreate(segs[n + 1])
                         /\ RaisedIn(k, "map")
               /\ RaisedIn(k, "map") => ~Registered(k)
    /\ views = ExpectedViews(1) \o ExpectedViews(2)
    /\ entry_points = [i \in 1..Cardinality({k \in Regions : Registered(k)}) |->
                          firmware_meta_data[i].entry_point]

C8_Witness ==
    /\ RaisedIn(2, "map")
    /\ Len(Segs(1)) >= 2 /\ Registered(1)
    /\ NMapped(2) >= 1
    /\ Len(entry_points) = 1

(* C9: the i-th segment of a region (from 0) is named by the region's base *)
(* name followed by the decimal numeral of i, "bootloader" for the region  *)
(* at 0 and "Segment" for the region at 0x1000; names are pairwise         *)
(* distinct within a region and no name of one region is a name of the     *)
(* other.                                                                  *)
C9_SegmentNames ==
    /\ \A k \in Regions : \A i \in 1..Len(Segs(k)) :
           LET name == Segs(k)[i].name
               b == Len(BaseOf(k))
           IN  /\ Len(name) > b
               /\ SubSeq(name, 1, b) = BaseOf(k)
               /\ IsNumeralOf(SubSeq(name, b + 1, Len(name)), i - 1)
    /\ \A k \in Regions : \A i, j \in 1..Len(Segs(k)) :
           i # j => Segs(k)[i].name # Segs(k)[j].name
    /\ \A i \in 1..Len(Segs(1)) : \A j \in 1..Len(Segs(2)) :
           Segs(1)[i].name # Segs(2)[j].name

C9_Witness ==
    /\ Built(1) /\ Len(Segs(1)) > 10
    /\ Len(Segs(2)) >= 2

(* C10: the magic byte is not validated.  Two dumps that differ only in    *)
(* the magic byte of one region's header give the same outcome: the same   *)
(* end (done or raised, and where), the same entry points, the same        *)
(* segment descriptors, the same host calls and the same views.            *)
C10_MagicByteIgnored ==
    (first.constructed /\ Terminated) => Outcome = first.outcome

C10_Witness ==
    /\ first.constructed /\ pc = "done"
    /\ first.magic # ByteAt(binary, StartOf(first.varied))
    /\ firmware_meta_data[first.varied].magic_char # first.magic
    /\ Len(views) >= 2

=============================================================================
